---- MODULE Spec2Model ----
(***************************************************************************)
(* The Issue and Project facades of youtrack-rocket-mcp                    *)
(* (tools/issues.py, tools/projects.py) as they are dispatched by          *)
(* server.py.  A facade method is an `async def`: it runs until it awaits  *)
(* a remote call, is resumed with that call's response or fault, and ends  *)
(* by returning a JSON text.  A method is modelled as an operator over its *)
(* arguments and the responses received so far (resp); it yields either    *)
(* the call it is now awaiting, the value it returns, or the exception     *)
(* that escapes it.                                                        *)
(*                                                                         *)
(* Python strings are sequences of fragments (TLA+ strings), so that       *)
(* f-strings are concatenations and startswith is a prefix test.           *)
(***************************************************************************)
EXTENDS Integers, Sequences, FiniteSets, TLC

VARIABLES
    projects,   \* the tracker's project list (remote state), in list order
    pc,         \* "idle" | "running" | "done": the position of the current invocation
    op,         \* the tool invoked
    args,       \* its arguments
    resp,       \* the responses its remote calls received so far
    calls,      \* the remote calls it issued so far, in order
    outcome,    \* its completion: awaiting a call, returned, or raised
    lookup,     \* the last get_project_by_name hit, while the tracker is unchanged
    tools,      \* the attributes of the server's facade instances
    inv         \* the invocations in progress side by side, when several are

vars == <<projects, pc, op, args, resp, calls, outcome, lookup, tools, inv>>

---------------------------------------------------------------------------
(* Bounds of the model *)

MaxProjects == 2    \* projects the tracker holds at most
MaxFields == 2      \* elements of a custom-field list at most

---------------------------------------------------------------------------
(* Python values *)

PyNone == [repr |-> "none"]
PyStr(s) == [repr |-> "str", s |-> s]
PyBool(b) == [repr |-> "bool", b |-> b]
PyInt(n) == [repr |-> "int", n |-> n]
PyDict(f) == [repr |-> "dict", fields |-> f]
PyList(xs) == [repr |-> "list", items |-> xs]
\* a pydantic model: attributes, and model_dump()
PyModel(f) == [repr |-> "model", fields |-> f]
\* any other object: attributes, no model_dump()
PyObject(f) == [repr |-> "object", fields |-> f]

NoFields == [k \in {} |-> PyNone]

\* bool(v)
Truthy(v) ==
    CASE v.repr = "none" -> FALSE
      [] v.repr = "str" -> Len(v.s) > 0
      [] v.repr = "bool" -> v.b
      [] v.repr = "int" -> v.n # 0
      [] v.repr = "dict" -> DOMAIN v.fields # {}
      [] v.repr = "list" -> Len(v.items) > 0
      [] OTHER -> TRUE

\* a or b
Or(a, b) == IF Truthy(a) THEN a ELSE b

isinstance_dict(v) == v.repr = "dict"

hasattr(v, a) ==
    \/ v.repr \in {"model", "object"} /\ a \in DOMAIN v.fields
    \/ v.repr = "model" /\ a = "model_dump"

getattr(v, a) == v.fields[a]

\* model_dump leaving out the attributes that are None
model_dump_exclude_none(v) ==
    PyDict([k \in {a \in DOMAIN v.fields : v.fields[a].repr # "none"} |-> v.fields[k]])

model_dump(v) == PyDict(v.fields)

\* d.get(k)
dict_get(d, k) == IF k \in DOMAIN d.fields THEN d.fields[k] ELSE PyNone

\* d[k] = v
dict_set(d, k, v) == PyDict((k :> v) @@ d.fields)

\* str(v), as an f-string interpolates it
str(v) ==
    CASE v.repr = "str" -> v.s
      [] v.repr = "none" -> <<"None">>
      [] v.repr = "int" -> <<"<int>">>
      [] v.repr = "bool" -> IF v.b THEN <<"True">> ELSE <<"False">>
      [] OTHER -> <<"<", v.repr, ">">>

\* s.startswith(p)
startswith(s, p) == Len(s) >= Len(p) /\ SubSeq(s, 1, Len(p)) = p

\* p in s
contains(s, p) ==
    \E i \in 0..(Len(s) - Len(p)) : SubSeq(s, i + 1, i + Len(p)) = p

RECURSIVE Serializable(_)
\* whether json.dumps accepts v
Serializable(v) ==
    CASE v.repr \in {"none", "str", "bool", "int"} -> TRUE
      [] v.repr = "dict" -> \A k \in DOMAIN v.fields : Serializable(v.fields[k])
      [] v.repr = "list" -> \A i \in 1..Len(v.items) : Serializable(v.items[i])
      [] OTHER -> FALSE

---------------------------------------------------------------------------
(* Exceptions, remote calls and their responses *)

Exc(type, msg, response) == [type |-> type, msg |-> msg, response |-> response]
NoExc == Exc("none", <<>>, PyNone)

AttributeError(v, a) ==
    Exc("AttributeError", <<"'", v.repr, "' object has no attribute '", a, "'">>, PyNone)
TypeError(msg) == Exc("TypeError", msg, PyNone)

\* a remote call: the client method and its arguments
Call(api, a) == [api |-> api, args |-> a]
NoCall == Call("none", <<>>)

Ok(v) == [ok |-> TRUE, val |-> v, exc |-> NoExc]
Fault(e) == [ok |-> FALSE, val |-> PyNone, exc |-> e]

---------------------------------------------------------------------------
(* Completions of a block of code *)

\* suspended at `await`: call c is in flight
Susp(c) == [kind |-> "await", call |-> c, value |-> PyNone, exc |-> NoExc]
\* `return v`
Ret(v) == [kind |-> "return", call |-> NoCall, value |-> v, exc |-> NoExc]
\* an exception leaves the block
Raise(e) == [kind |-> "raise", call |-> NoCall, value |-> PyNone, exc |-> e]
\* the block ran to its end, with v as what it computed
Fall(v) == [kind |-> "next", call |-> NoCall, value |-> v, exc |-> NoExc]

\* try: body  except Exception as e: H(e)
Try(body, H(_)) == IF body.kind = "raise" THEN H(body.exc) ELSE body

\* body; then K(what body computed)
Then(body, K(_)) == IF body.kind = "next" THEN K(body.value) ELSE body

\* x = await c, as the n-th call of the invocation; then K(x)
Await(rs, n, c, K(_)) ==
    IF Len(rs) < n THEN Susp(c)
    ELSE IF rs[n].ok THEN K(rs[n].val)
    ELSE Raise(rs[n].exc)

\* the text json.dumps(v) produces
JsonText(v) == [repr |-> "json", doc |-> v]

\* return json.dumps(v)
json_dumps(v) ==
    IF Serializable(v) THEN Ret(JsonText(v))
    ELSE Raise(TypeError(<<"Object of type ", v.repr, " is not JSON serializable">>))

\* {'error': msg}
ErrorDict(msg) == PyDict([error |-> PyStr(msg)])
\* {'error': msg, 'status': 'error'}
ErrorStatusDict(msg) == PyDict([error |-> PyStr(msg), status |-> PyStr(<<"error">>)])

---------------------------------------------------------------------------
(* IssueTools (tools/issues.py) *)

\* str(e)
str_e(e) == e.msg

\* a response body, as bytes
PyBytes(b) == [repr |-> "bytes", bytes |-> b]
InvalidByte == "\\xff"

\* content.decode('utf-8', errors='replace')
decode_utf8_replace(content) ==
    [i \in 1..Len(content.bytes) |->
        IF content.bytes[i] = InvalidByte THEN "U+FFFD" ELSE content.bytes[i]]

\* the fixed field-set string of get_issue and search_issues
IssueFieldSet == <<"id,idReadable,summary,description,created,updated,project(id,name,shortName),reporter(id,login,name),assignee(id,login,name),customFields(id,name,value)">>

\* get_issue without its except clause
get_issue_unguarded(issue_id, rs) ==
    Await(rs, 1,
          Call("client.get",
               <<PyStr(<<"issues/">> \o str(issue_id) \o <<"?fields=">> \o IssueFieldSet)>>),
          LAMBDA raw_issue : json_dumps(raw_issue))

\* get_issue asking a second time when the first GET faults
get_issue_retrying(issue_id, rs) ==
    LET c == Call("client.get",
                  <<PyStr(<<"issues/">> \o str(issue_id) \o <<"?fields=">> \o IssueFieldSet)>>)
    IN Try(Try(Await(rs, 1, c, LAMBDA raw_issue : json_dumps(raw_issue)),
               LAMBDA e : Await(rs, 2, c, LAMBDA raw_issue : json_dumps(raw_issue))),
           LAMBDA e : json_dumps(ErrorDict(str_e(e))))

get_issue(issue_id, rs) ==
    Try(Await(rs, 1,
              Call("client.get",
                   <<PyStr(<<"issues/">> \o str(issue_id) \o <<"?fields=">> \o IssueFieldSet)>>),
              LAMBDA raw_issue :
                  IF /\ isinstance_dict(raw_issue)
                     /\ dict_get(raw_issue, "$type") = PyStr(<<"Issue">>)
                     /\ "summary" \notin DOMAIN raw_issue.fields
                  THEN json_dumps(dict_set(raw_issue, "summary",
                                           PyStr(<<"Issue ">> \o str(issue_id))))
                  ELSE json_dumps(raw_issue)),
        LAMBDA e : json_dumps(ErrorDict(str_e(e))))

search_issues(query, limit, rs) ==
    Try(Await(rs, 1,
              Call("client.get",
                   <<PyStr(<<"issues">>),
                     PyDict(("query" :> query) @@ ("$top" :> limit)
                            @@ ("fields" :> PyStr(IssueFieldSet)))>>),
              LAMBDA raw_issues : json_dumps(raw_issues)),
        LAMBDA e : json_dumps(ErrorDict(str_e(e))))

\* (project_name, summary, description, custom_fields) of the dictionary form
_extract_parameters_from_dict(project) ==
    [project |-> dict_get(project, "project"),
     summary |-> dict_get(project, "summary"),
     description |-> dict_get(project, "description"),
     custom_fields |-> dict_get(project, "custom_fields")]

\* the fallback of `Config.YOUTRACK_URL or ...`
DefaultBaseUrl == PyStr(<<"https://youtrack.gaijin.team">>)

\* _generate_issue_url preferring the internal ID
_generate_issue_url_internal_first(issue_id, readable_id, YOUTRACK_URL) ==
    IF ~(Truthy(issue_id) \/ Truthy(readable_id)) THEN PyNone
    ELSE LET base_url == Or(YOUTRACK_URL, DefaultBaseUrl)
         IN IF Truthy(issue_id)
            THEN PyStr(str(base_url) \o <<"/issue/">> \o str(issue_id))
            ELSE PyStr(str(base_url) \o <<"/issue/">> \o str(readable_id))

\* YOUTRACK_URL is Config.YOUTRACK_URL as read by this call
_generate_issue_url(issue_id, readable_id, YOUTRACK_URL) ==
    IF ~(Truthy(issue_id) \/ Truthy(readable_id)) THEN PyNone
    ELSE LET base_url == Or(YOUTRACK_URL, DefaultBaseUrl)
         IN IF Truthy(readable_id)
            THEN PyStr(str(base_url) \o <<"/issue/">> \o str(readable_id))
            ELSE IF Truthy(issue_id)
            THEN PyStr(str(base_url) \o <<"/issue/">> \o str(issue_id))
            ELSE PyNone

\* _prepare_issue_response marking every result a success, with or without a URL
_prepare_issue_response_always_success(issue, issue_url, summary, description, project) ==
    LET result ==
            IF hasattr(issue, "model_dump") THEN model_dump(issue)
            ELSE IF isinstance_dict(issue) THEN issue
            ELSE PyDict(("id" :> (IF hasattr(issue, "id") THEN getattr(issue, "id")
                                  ELSE PyNone))
                        @@ ("summary" :> (IF hasattr(issue, "summary")
                                          THEN getattr(issue, "summary") ELSE summary))
                        @@ ("description" :> (IF hasattr(issue, "description")
                                              THEN getattr(issue, "description")
                                              ELSE description))
                        @@ ("project" :> project)
                        @@ ("$type" :> PyStr(<<"Issue">>)))
    IN IF Truthy(issue_url) /\ isinstance_dict(result)
       THEN dict_set(dict_set(result, "url", issue_url), "status", PyStr(<<"success">>))
       ELSE dict_set(result, "status", PyStr(<<"success">>))

_prepare_issue_response(issue, issue_url, summary, description, project) ==
    LET result ==
            IF hasattr(issue, "model_dump") THEN model_dump(issue)
            ELSE IF isinstance_dict(issue) THEN issue
            ELSE PyDict(("id" :> (IF hasattr(issue, "id") THEN getattr(issue, "id")
                                  ELSE PyNone))
                        @@ ("summary" :> (IF hasattr(issue, "summary")
                                          THEN getattr(issue, "summary") ELSE summary))
                        @@ ("description" :> (IF hasattr(issue, "description")
                                              THEN getattr(issue, "description")
                                              ELSE description))
                        @@ ("project" :> project)
                        @@ ("$type" :> PyStr(<<"Issue">>)))
    IN IF Truthy(issue_url) /\ isinstance_dict(result)
       THEN dict_set(dict_set(result, "url", issue_url), "status", PyStr(<<"success">>))
       ELSE result

\* the create call answering a fault with its message alone
create_issue_call_message_only(project_id, project, summary, description, custom_fields, YOUTRACK_URL, n, rs) ==
    LET additional_fields == IF Truthy(custom_fields) THEN custom_fields
                             ELSE PyDict(NoFields)
    IN Try(Await(rs, n,
                 Call("issues_api.create_issue",
                      <<project_id, summary, description, additional_fields>>),
                 LAMBDA issue :
                     IF isinstance_dict(issue) /\ Truthy(dict_get(issue, "error"))
                     THEN json_dumps(issue)
                     ELSE LET issue_id ==
                                  IF hasattr(issue, "id") THEN getattr(issue, "id")
                                  ELSE IF isinstance_dict(issue) THEN dict_get(issue, "id")
                                  ELSE PyNone
                              readable_id ==
                                  IF hasattr(issue, "id")
                                  THEN (IF hasattr(issue, "idReadable")
                                        THEN getattr(issue, "idReadable") ELSE PyNone)
                                  ELSE IF isinstance_dict(issue)
                                  THEN dict_get(issue, "idReadable")
                                  ELSE PyNone
                              issue_url ==
                                  _generate_issue_url(issue_id, readable_id, YOUTRACK_URL)
                          IN json_dumps(_prepare_issue_response(
                                 issue, issue_url, summary, description, project))),
           LAMBDA e : json_dumps(ErrorStatusDict(str_e(e))))

\* lines 209-247: the create call and the shaping of its answer, as call n
create_issue_call(project_id, project, summary, description, custom_fields, YOUTRACK_URL, n, rs) ==
    LET additional_fields == IF Truthy(custom_fields) THEN custom_fields
                             ELSE PyDict(NoFields)
    IN Try(Await(rs, n,
                 Call("issues_api.create_issue",
                      <<project_id, summary, description, additional_fields>>),
                 LAMBDA issue :
                     IF isinstance_dict(issue) /\ Truthy(dict_get(issue, "error"))
                     THEN json_dumps(issue)
                     ELSE LET issue_id ==
                                  IF hasattr(issue, "id") THEN getattr(issue, "id")
                                  ELSE IF isinstance_dict(issue) THEN dict_get(issue, "id")
                                  ELSE PyNone
                              readable_id ==
                                  IF hasattr(issue, "id")
                                  THEN (IF hasattr(issue, "idReadable")
                                        THEN getattr(issue, "idReadable") ELSE PyNone)
                                  ELSE IF isinstance_dict(issue)
                                  THEN dict_get(issue, "idReadable")
                                  ELSE PyNone
                              issue_url ==
                                  _generate_issue_url(issue_id, readable_id, YOUTRACK_URL)
                          IN json_dumps(_prepare_issue_response(
                                 issue, issue_url, summary, description, project))),
           LAMBDA e :
               LET error_msg ==
                       IF Truthy(e.response) /\ hasattr(e.response, "content")
                       THEN str_e(e) \o <<" - ">>
                            \o decode_utf8_replace(getattr(e.response, "content"))
                       ELSE str_e(e)
               IN json_dumps(ErrorStatusDict(error_msg)))

\* create_issue_resolve taking every project string for an internal ID
create_issue_resolve_skipped(project, rs) ==
    IF project.repr # "str"
    THEN Raise(AttributeError(project, "startswith"))
    ELSE Fall([project_id |-> project, n |-> 1])

\* create_issue_resolve looking every project string up by name, internal IDs too
create_issue_resolve_always(project, rs) ==
    IF project.repr # "str"
    THEN Raise(AttributeError(project, "startswith"))
    ELSE IF Truthy(project)
    THEN Try(Await(rs, 1,
                   Call("projects_api.get_project_by_name", <<project>>),
                   LAMBDA project_obj :
                       IF Truthy(project_obj)
                       THEN IF ~hasattr(project_obj, "name")
                            THEN Raise(AttributeError(project_obj, "name"))
                            ELSE IF ~hasattr(project_obj, "id")
                            THEN Raise(AttributeError(project_obj, "id"))
                            ELSE Fall([project_id |-> getattr(project_obj, "id"), n |-> 2])
                       ELSE json_dumps(ErrorStatusDict(
                                <<"Project not found", ": ">> \o str(project)))),
             LAMBDA e :
                 json_dumps(ErrorStatusDict(<<"Error finding project: ">> \o str_e(e))))
    ELSE Fall([project_id |-> project, n |-> 1])

\* lines 181-197: the project ID, resolved from a short name when it is one
create_issue_resolve(project, rs) ==
    IF project.repr # "str"
    THEN Raise(AttributeError(project, "startswith"))
    ELSE IF Truthy(project) /\ ~startswith(project.s, <<"0", "-">>)
    THEN Try(Await(rs, 1,
                   Call("projects_api.get_project_by_name", <<project>>),
                   LAMBDA project_obj :
                       IF Truthy(project_obj)
                       THEN IF ~hasattr(project_obj, "name")
                            THEN Raise(AttributeError(project_obj, "name"))
                            ELSE IF ~hasattr(project_obj, "id")
                            THEN Raise(AttributeError(project_obj, "id"))
                            ELSE Fall([project_id |-> getattr(project_obj, "id"), n |-> 2])
                       ELSE json_dumps(ErrorStatusDict(
                                <<"Project not found", ": ">> \o str(project)))),
             LAMBDA e :
                 json_dumps(ErrorStatusDict(<<"Error finding project: ">> \o str_e(e))))
    ELSE Fall([project_id |-> project, n |-> 1])

\* create_issue without the check of the summary
create_issue_unvalidated(project, summary, description, custom_fields, YOUTRACK_URL, rs) ==
    Try(IF ~Truthy(project)
        THEN json_dumps(ErrorStatusDict(<<"Project is required">>))
        ELSE Then(create_issue_resolve(project, rs),
                  LAMBDA r :
                      create_issue_call(r.project_id, project, summary, description,
                                        custom_fields, YOUTRACK_URL, r.n, rs)),
        LAMBDA e : json_dumps(ErrorStatusDict(str_e(e))))

create_issue(project, summary, description, custom_fields, YOUTRACK_URL, rs) ==
    Try(LET fromDict == /\ isinstance_dict(project)
                        /\ "project" \in DOMAIN project.fields
                        /\ "summary" \in DOMAIN project.fields
            p == IF fromDict THEN _extract_parameters_from_dict(project)
                 ELSE [project |-> project, summary |-> summary,
                       description |-> description, custom_fields |-> custom_fields]
        IN IF ~Truthy(p.project)
           THEN json_dumps(ErrorStatusDict(<<"Project is required">>))
           ELSE IF ~Truthy(p.summary)
           THEN json_dumps(ErrorStatusDict(<<"Summary is required">>))
           ELSE Then(create_issue_resolve(p.project, rs),
                     LAMBDA r :
                         create_issue_call(r.project_id, p.project, p.summary,
                                           p.description, p.custom_fields,
                                           YOUTRACK_URL, r.n, rs)),
        LAMBDA e : json_dumps(ErrorStatusDict(str_e(e))))

add_comment(issue_id, text, rs) ==
    Try(Await(rs, 1, Call("issues_api.add_comment", <<issue_id, text>>),
              LAMBDA res : json_dumps(res)),
        LAMBDA e : json_dumps(ErrorDict(str_e(e))))

get_issue_raw(issue_id, rs) ==
    Try(Await(rs, 1, Call("client.get", <<PyStr(<<"issues/">> \o str(issue_id))>>),
              LAMBDA raw_issue : json_dumps(raw_issue)),
        LAMBDA e : json_dumps(ErrorDict(str_e(e))))

---------------------------------------------------------------------------
(* ProjectTools (tools/projects.py) *)

\* whether `for x in v` starts (a dict is tested for before any loop here)
iterable(v) == v.repr \in {"list", "str"}

\* the elements `for x in v` visits
items_of(v) ==
    IF v.repr = "list" THEN v.items
    ELSE [i \in 1..Len(v.s) |-> PyStr(<<v.s[i]>>)]

\* x.model_dump() if hasattr(x, 'model_dump') else x
dump_or_self(x) == IF hasattr(x, "model_dump") THEN model_dump(x) ELSE x

get_projects(include_archived, rs) ==
    Try(Await(rs, 1, Call("projects_api.get_projects", <<include_archived>>),
              LAMBDA ps :
                  IF ~iterable(ps)
                  THEN Raise(TypeError(<<"'", ps.repr, "' object is not iterable">>))
                  ELSE json_dumps(PyList([i \in 1..Len(items_of(ps)) |->
                                             dump_or_self(items_of(ps)[i])]))),
        LAMBDA e : json_dumps(ErrorDict(str_e(e))))

\* get_project without its except clause
get_project_unguarded(project_id, project, rs) ==
    LET project_identifier == Or(project_id, project)
    IN IF ~Truthy(project_identifier)
       THEN json_dumps(ErrorDict(<<"Project ID is required">>))
       ELSE Await(rs, 1, Call("projects_api.get_project", <<project_identifier>>),
                  LAMBDA project_obj : json_dumps(dump_or_self(project_obj)))

\* get_project preferring the alternative parameter
get_project_alt_first(project_id, project, rs) ==
    Try(LET project_identifier == Or(project, project_id)
        IN IF ~Truthy(project_identifier)
           THEN json_dumps(ErrorDict(<<"Project ID is required">>))
           ELSE Await(rs, 1, Call("projects_api.get_project", <<project_identifier>>),
                      LAMBDA project_obj : json_dumps(dump_or_self(project_obj))),
        LAMBDA e : json_dumps(ErrorDict(str_e(e))))

get_project(project_id, project, rs) ==
    Try(LET project_identifier == Or(project_id, project)
        IN IF ~Truthy(project_identifier)
           THEN json_dumps(ErrorDict(<<"Project ID is required">>))
           ELSE Await(rs, 1, Call("projects_api.get_project", <<project_identifier>>),
                      LAMBDA project_obj : json_dumps(dump_or_self(project_obj))),
        LAMBDA e : json_dumps(ErrorDict(str_e(e))))

\* get_project_by_name passing on whatever the lookup delivers, a miss included
get_project_by_name_unchecked(project_name, rs) ==
    Try(IF ~Truthy(project_name)
        THEN json_dumps(ErrorDict(<<"Project name is required">>))
        ELSE Await(rs, 1, Call("projects_api.get_project_by_name", <<project_name>>),
                   LAMBDA found : json_dumps(dump_or_self(found))),
        LAMBDA e : json_dumps(ErrorDict(str_e(e))))

get_project_by_name(project_name, rs) ==
    Try(IF ~Truthy(project_name)
        THEN json_dumps(ErrorDict(<<"Project name is required">>))
        ELSE Await(rs, 1, Call("projects_api.get_project_by_name", <<project_name>>),
                   LAMBDA found :
                       IF Truthy(found)
                       THEN json_dumps(dump_or_self(found))
                       ELSE json_dumps(ErrorDict(<<"Project '">> \o str(project_name)
                                                 \o <<"' not found">>))),
        LAMBDA e : json_dumps(ErrorDict(str_e(e))))

\* get_project_issues answering every fault of the direct lookup with an envelope
get_project_issues_no_fallback(project_id, project, limit, rs) ==
    Try(LET project_identifier == Or(project_id, project)
        IN IF ~Truthy(project_identifier)
           THEN json_dumps(ErrorDict(<<"Project ID is required">>))
           ELSE Then(
               \* first try with the direct project ID
               Try(Await(rs, 1,
                         Call("projects_api.get_project_issues",
                              <<project_identifier, limit>>),
                         LAMBDA issues :
                             IF Truthy(issues) THEN json_dumps(issues)
                             ELSE Fall(PyNone)),
                   LAMBDA e :
                       json_dumps(ErrorDict(str_e(e)))),
               \* if that failed, try to find the project by name
               LAMBDA none :
                   Try(Await(rs, 2,
                             Call("projects_api.get_project_by_name",
                                  <<project_identifier>>),
                             LAMBDA project_obj :
                                 IF Truthy(project_obj)
                                 THEN IF ~hasattr(project_obj, "id")
                                      THEN Raise(AttributeError(project_obj, "id"))
                                      ELSE Await(rs, 3,
                                                 Call("projects_api.get_project_issues",
                                                      <<getattr(project_obj, "id"), limit>>),
                                                 LAMBDA issues : json_dumps(issues))
                                 ELSE json_dumps(ErrorDict(
                                          <<"Project not found", ": ">>
                                          \o str(project_identifier)))),
                       LAMBDA e : json_dumps(ErrorDict(str_e(e))))),
        LAMBDA e : json_dumps(ErrorDict(str_e(e))))

\* get_project_issues going on to the name resolution after any fault of the direct lookup
get_project_issues_always_fallback(project_id, project, limit, rs) ==
    Try(LET project_identifier == Or(project_id, project)
        IN IF ~Truthy(project_identifier)
           THEN json_dumps(ErrorDict(<<"Project ID is required">>))
           ELSE Then(
               \* first try with the direct project ID
               Try(Await(rs, 1,
                         Call("projects_api.get_project_issues",
                              <<project_identifier, limit>>),
                         LAMBDA issues :
                             IF Truthy(issues) THEN json_dumps(issues)
                             ELSE Fall(PyNone)),
                   LAMBDA e :
                       Fall(PyNone)),
               \* if that failed, try to find the project by name
               LAMBDA none :
                   Try(Await(rs, 2,
                             Call("projects_api.get_project_by_name",
                                  <<project_identifier>>),
                             LAMBDA project_obj :
                                 IF Truthy(project_obj)
                                 THEN IF ~hasattr(project_obj, "id")
                                      THEN Raise(AttributeError(project_obj, "id"))
                                      ELSE Await(rs, 3,
                                                 Call("projects_api.get_project_issues",
                                                      <<getattr(project_obj, "id"), limit>>),
                                                 LAMBDA issues : json_dumps(issues))
                                 ELSE json_dumps(ErrorDict(
                                          <<"Project not found", ": ">>
                                          \o str(project_identifier)))),
                       LAMBDA e : json_dumps(ErrorDict(str_e(e))))),
        LAMBDA e : json_dumps(ErrorDict(str_e(e))))

\* get_project_issues returning the direct lookup's result even when it is empty
get_project_issues_empty_returned(project_id, project, limit, rs) ==
    Try(LET project_identifier == Or(project_id, project)
        IN IF ~Truthy(project_identifier)
           THEN json_dumps(ErrorDict(<<"Project ID is required">>))
           ELSE Then(
               \* first try with the direct project ID
               Try(Await(rs, 1,
                         Call("projects_api.get_project_issues",
                              <<project_identifier, limit>>),
                         LAMBDA issues :
                             json_dumps(issues)),
                   LAMBDA e :
                       IF ~startswith(str_e(e), <<"Project not found">>)
                       THEN json_dumps(ErrorDict(str_e(e)))
                       ELSE Fall(PyNone)),
               \* if that failed, try to find the project by name
               LAMBDA none :
                   Try(Await(rs, 2,
                             Call("projects_api.get_project_by_name",
                                  <<project_identifier>>),
                             LAMBDA project_obj :
                                 IF Truthy(project_obj)
                                 THEN IF ~hasattr(project_obj, "id")
                                      THEN Raise(AttributeError(project_obj, "id"))
                                      ELSE Await(rs, 3,
                                                 Call("projects_api.get_project_issues",
                                                      <<getattr(project_obj, "id"), limit>>),
                                                 LAMBDA issues : json_dumps(issues))
                                 ELSE json_dumps(ErrorDict(
                                          <<"Project not found", ": ">>
                                          \o str(project_identifier)))),
                       LAMBDA e : json_dumps(ErrorDict(str_e(e))))),
        LAMBDA e : json_dumps(ErrorDict(str_e(e))))

get_project_issues(project_id, project, limit, rs) ==
    Try(LET project_identifier == Or(project_id, project)
        IN IF ~Truthy(project_identifier)
           THEN json_dumps(ErrorDict(<<"Project ID is required">>))
           ELSE Then(
               \* first try with the direct project ID
               Try(Await(rs, 1,
                         Call("projects_api.get_project_issues",
                              <<project_identifier, limit>>),
                         LAMBDA issues :
                             IF Truthy(issues) THEN json_dumps(issues)
                             ELSE Fall(PyNone)),
                   LAMBDA e :
                       IF ~startswith(str_e(e), <<"Project not found">>)
                       THEN json_dumps(ErrorDict(str_e(e)))
                       ELSE Fall(PyNone)),
               \* if that failed, try to find the project by name
               LAMBDA none :
                   Try(Await(rs, 2,
                             Call("projects_api.get_project_by_name",
                                  <<project_identifier>>),
                             LAMBDA project_obj :
                                 IF Truthy(project_obj)
                                 THEN IF ~hasattr(project_obj, "id")
                                      THEN Raise(AttributeError(project_obj, "id"))
                                      ELSE Await(rs, 3,
                                                 Call("projects_api.get_project_issues",
                                                      <<getattr(project_obj, "id"), limit>>),
                                                 LAMBDA issues : json_dumps(issues))
                                 ELSE json_dumps(ErrorDict(
                                          <<"Project not found", ": ">>
                                          \o str(project_identifier)))),
                       LAMBDA e : json_dumps(ErrorDict(str_e(e))))),
        LAMBDA e : json_dumps(ErrorDict(str_e(e))))

\* custom_fields_list without its except clause
custom_fields_list_unguarded(fields) ==
    IF ~iterable(fields)
    THEN Raise(TypeError(<<"'", fields.repr, "' object is not iterable">>))
    ELSE json_dumps(PyList([i \in 1..Len(items_of(fields)) |->
            LET field == items_of(fields)[i]
            IN IF hasattr(field, "model_dump") THEN model_dump(field)
               ELSE IF isinstance_dict(field) THEN field
               ELSE PyStr(str(field))]))

\* lines 198-214: the element-wise conversion of a field list
custom_fields_list(fields) ==
    Try(IF ~iterable(fields)
        THEN Raise(TypeError(<<"'", fields.repr, "' object is not iterable">>))
        ELSE json_dumps(PyList([i \in 1..Len(items_of(fields)) |->
                LET field == items_of(fields)[i]
                IN IF hasattr(field, "model_dump") THEN model_dump(field)
                   ELSE IF isinstance_dict(field) THEN field
                   ELSE PyStr(str(field))])),
        LAMBDA e : json_dumps(PyDict([custom_fields |-> PyStr(str(fields))])))

get_custom_fields(project_id, project, rs) ==
    Try(LET project_identifier == Or(project_id, project)
        IN IF ~Truthy(project_identifier)
           THEN json_dumps(ErrorDict(<<"Project ID is required">>))
           ELSE Await(rs, 1,
                      Call("projects_api.get_custom_fields", <<project_identifier>>),
                      LAMBDA fields :
                          IF fields.repr = "none" THEN json_dumps(PyList(<<>>))
                          ELSE IF isinstance_dict(fields) THEN json_dumps(fields)
                          ELSE custom_fields_list(fields)),
        LAMBDA e : json_dumps(ErrorDict(str_e(e))))

get_project_detailed(project_id, project, rs) ==
    Try(LET project_identifier == Or(project_id, project)
        IN IF ~Truthy(project_identifier)
           THEN json_dumps(ErrorDict(<<"Project ID is required">>))
           ELSE Await(rs, 1,
                      Call("projects_api.get_project_detailed", <<project_identifier>>),
                      LAMBDA detailed_info : json_dumps(dump_or_self(detailed_info))),
        LAMBDA e : json_dumps(ErrorDict(str_e(e))))

get_project_fields(project_id, project, rs) ==
    Try(LET project_identifier == Or(project_id, project)
        IN IF ~Truthy(project_identifier)
           THEN json_dumps(ErrorDict(<<"Project ID is required">>))
           ELSE Await(rs, 1,
                      Call("projects_api.get_project_fields_from_issues",
                           <<project_identifier>>),
                      LAMBDA fields_info : json_dumps(fields_info)),
        LAMBDA e : json_dumps(ErrorDict(str_e(e))))

\* create_project checking the leader before the short name
create_project_leader_first(name, short_name, lead_id, description, rs) ==
    Try(IF ~Truthy(name)
        THEN json_dumps(ErrorDict(<<"Project name is required">>))
        ELSE IF ~Truthy(lead_id)
        THEN json_dumps(ErrorDict(<<"Project leader ID is required">>))
        ELSE IF ~Truthy(short_name)
        THEN json_dumps(ErrorDict(<<"Project short name is required">>))
        ELSE Await(rs, 1,
                   Call("projects_api.create_project",
                        <<name, short_name, lead_id, description>>),
                   LAMBDA created : json_dumps(dump_or_self(created))),
        LAMBDA e : json_dumps(ErrorDict(str_e(e))))

create_project(name, short_name, lead_id, description, rs) ==
    Try(IF ~Truthy(name)
        THEN json_dumps(ErrorDict(<<"Project name is required">>))
        ELSE IF ~Truthy(short_name)
        THEN json_dumps(ErrorDict(<<"Project short name is required">>))
        ELSE IF ~Truthy(lead_id)
        THEN json_dumps(ErrorDict(<<"Project leader ID is required">>))
        ELSE Await(rs, 1,
                   Call("projects_api.create_project",
                        <<name, short_name, lead_id, description>>),
                   LAMBDA created : json_dumps(dump_or_self(created))),
        LAMBDA e : json_dumps(ErrorDict(str_e(e))))

\* update_data leaving out the parameters that are falsy, not just the None ones
update_data_truthy(name, description, archived, lead_id, short_name) ==
    LET keys == (IF Truthy(name) THEN {"name"} ELSE {})
                \cup (IF Truthy(description) THEN {"description"} ELSE {})
                \cup (IF Truthy(archived) THEN {"archived"} ELSE {})
                \cup (IF Truthy(lead_id) THEN {"leader"} ELSE {})
                \cup (IF Truthy(short_name) THEN {"shortName"} ELSE {})
    IN PyDict([k \in keys |->
                  CASE k = "name" -> name
                    [] k = "description" -> description
                    [] k = "archived" -> archived
                    [] k = "leader" -> PyDict([id |-> lead_id])
                    [] k = "shortName" -> short_name])

\* lines 375-388: the patch body, of the parameters that are not None
update_data(name, description, archived, lead_id, short_name) ==
    LET keys == (IF name.repr # "none" THEN {"name"} ELSE {})
                \cup (IF description.repr # "none" THEN {"description"} ELSE {})
                \cup (IF archived.repr # "none" THEN {"archived"} ELSE {})
                \cup (IF lead_id.repr # "none" THEN {"leader"} ELSE {})
                \cup (IF short_name.repr # "none" THEN {"shortName"} ELSE {})
    IN PyDict([k \in keys |->
                  CASE k = "name" -> name
                    [] k = "description" -> description
                    [] k = "archived" -> archived
                    [] k = "leader" -> PyDict([id |-> lead_id])
                    [] k = "shortName" -> short_name])

\* update_project giving up when the patch call faults
update_project_patch_fatal(project_id, project, name, description, archived, lead_id, short_name, rs) ==
    Try(LET project_identifier == Or(project_id, project)
        IN IF ~Truthy(project_identifier)
           THEN json_dumps(ErrorDict(<<"Project ID is required">>))
           ELSE
             Try(Await(rs, 1, Call("projects_api.get_project", <<project_identifier>>),
                   LAMBDA existing_project :
                     \* the log line reads existing_project.name and .id
                     IF ~hasattr(existing_project, "name")
                     THEN Raise(AttributeError(existing_project, "name"))
                     ELSE IF ~hasattr(existing_project, "id")
                     THEN Raise(AttributeError(existing_project, "id"))
                     ELSE
                       LET data == update_data(name, description, archived,
                                               lead_id, short_name)
                       IN IF ~Truthy(data)
                          THEN json_dumps(dump_or_self(existing_project))
                          ELSE Then(
                            Try(Await(rs, 2,
                                      Call("client.post",
                                           <<PyStr(<<"admin/projects/">>
                                                   \o str(project_identifier)), data>>),
                                      LAMBDA posted : Fall(PyNone)),
                                LAMBDA e : json_dumps(ErrorDict(
                                    <<"Could not update project: ">> \o str_e(e)))),
                            LAMBDA none :
                              Try(Await(rs, 3,
                                        Call("projects_api.get_project",
                                             <<project_identifier>>),
                                        LAMBDA updated_project :
                                          IF ~hasattr(updated_project, "name")
                                          THEN Raise(AttributeError(updated_project, "name"))
                                          ELSE json_dumps(dump_or_self(updated_project))),
                                  LAMBDA e : json_dumps(ErrorDict(
                                      <<"Project was updated but could not retrieve the result: ">>
                                      \o str_e(e)))))),
                 LAMBDA e : json_dumps(ErrorDict(<<"Could not update project: ">>
                                                 \o str_e(e)))),
        LAMBDA e : json_dumps(ErrorDict(str_e(e))))

\* update_project returning the project it fetched before the patch
update_project_stale(project_id, project, name, description, archived, lead_id, short_name, rs) ==
    Try(LET project_identifier == Or(project_id, project)
        IN IF ~Truthy(project_identifier)
           THEN json_dumps(ErrorDict(<<"Project ID is required">>))
           ELSE
             Try(Await(rs, 1, Call("projects_api.get_project", <<project_identifier>>),
                   LAMBDA existing_project :
                     \* the log line reads existing_project.name and .id
                     IF ~hasattr(existing_project, "name")
                     THEN Raise(AttributeError(existing_project, "name"))
                     ELSE IF ~hasattr(existing_project, "id")
                     THEN Raise(AttributeError(existing_project, "id"))
                     ELSE
                       LET data == update_data(name, description, archived,
                                               lead_id, short_name)
                       IN IF ~Truthy(data)
                          THEN json_dumps(dump_or_self(existing_project))
                          ELSE Then(
                            Try(Await(rs, 2,
                                      Call("client.post",
                                           <<PyStr(<<"admin/projects/">>
                                                   \o str(project_identifier)), data>>),
                                      LAMBDA posted : Fall(PyNone)),
                                \* continue anyway as the update might still have worked
                                LAMBDA e : Fall(PyNone)),
                            LAMBDA none : json_dumps(dump_or_self(existing_project)))),
                 LAMBDA e : json_dumps(ErrorDict(<<"Could not update project: ">>
                                                 \o str_e(e)))),
        LAMBDA e : json_dumps(ErrorDict(str_e(e))))

\* update_project without the except clause of its re-fetch
update_project_refetch_unguarded(project_id, project, name, description, archived, lead_id, short_name, rs) ==
    Try(LET project_identifier == Or(project_id, project)
        IN IF ~Truthy(project_identifier)
           THEN json_dumps(ErrorDict(<<"Project ID is required">>))
           ELSE
             Try(Await(rs, 1, Call("projects_api.get_project", <<project_identifier>>),
                   LAMBDA existing_project :
                     \* the log line reads existing_project.name and .id
                     IF ~hasattr(existing_project, "name")
                     THEN Raise(AttributeError(existing_project, "name"))
                     ELSE IF ~hasattr(existing_project, "id")
                     THEN Raise(AttributeError(existing_project, "id"))
                     ELSE
                       LET data == update_data(name, description, archived,
                                               lead_id, short_name)
                       IN IF ~Truthy(data)
                          THEN json_dumps(dump_or_self(existing_project))
                          ELSE Then(
                            Try(Await(rs, 2,
                                      Call("client.post",
                                           <<PyStr(<<"admin/projects/">>
                                                   \o str(project_identifier)), data>>),
                                      LAMBDA posted : Fall(PyNone)),
                                \* continue anyway as the update might still have worked
                                LAMBDA e : Fall(PyNone)),
                            LAMBDA none :
                              Try(Await(rs, 3,
                                        Call("projects_api.get_project",
                                             <<project_identifier>>),
                                        LAMBDA updated_project :
                                          IF ~hasattr(updated_project, "name")
                                          THEN Raise(AttributeError(updated_project, "name"))
                                          ELSE json_dumps(dump_or_self(updated_project))),
                                  LAMBDA e : Raise(e)))),
                 LAMBDA e : json_dumps(ErrorDict(<<"Could not update project: ">>
                                                 \o str_e(e)))),
        LAMBDA e : json_dumps(ErrorDict(str_e(e))))

update_project(project_id, project, name, description, archived, lead_id, short_name, rs) ==
    Try(LET project_identifier == Or(project_id, project)
        IN IF ~Truthy(project_identifier)
           THEN json_dumps(ErrorDict(<<"Project ID is required">>))
           ELSE
             Try(Await(rs, 1, Call("projects_api.get_project", <<project_identifier>>),
                   LAMBDA existing_project :
                     \* the log line reads existing_project.name and .id
                     IF ~hasattr(existing_project, "name")
                     THEN Raise(AttributeError(existing_project, "name"))
                     ELSE IF ~hasattr(existing_project, "id")
                     THEN Raise(AttributeError(existing_project, "id"))
                     ELSE
                       LET data == update_data(name, description, archived,
                                               lead_id, short_name)
                       IN IF ~Truthy(data)
                          THEN json_dumps(dump_or_self(existing_project))
                          ELSE Then(
                            Try(Await(rs, 2,
                                      Call("client.post",
                                           <<PyStr(<<"admin/projects/">>
                                                   \o str(project_identifier)), data>>),
                                      LAMBDA posted : Fall(PyNone)),
                                \* continue anyway as the update might still have worked
                                LAMBDA e : Fall(PyNone)),
                            LAMBDA none :
                              Try(Await(rs, 3,
                                        Call("projects_api.get_project",
                                             <<project_identifier>>),
                                        LAMBDA updated_project :
                                          IF ~hasattr(updated_project, "name")
                                          THEN Raise(AttributeError(updated_project, "name"))
                                          ELSE json_dumps(dump_or_self(updated_project))),
                                  LAMBDA e : json_dumps(ErrorDict(
                                      <<"Project was updated but could not retrieve the result: ">>
                                      \o str_e(e)))))),
                 LAMBDA e : json_dumps(ErrorDict(<<"Could not update project: ">>
                                                 \o str_e(e)))),
        LAMBDA e : json_dumps(ErrorDict(str_e(e))))

---------------------------------------------------------------------------
(* The tracker behind the API clients (api/client.py, api/resources):      *)
(* what each remote call can answer in a given state of the tracker.       *)

Digit == <<"1", "2", "3", "4", "5", "6", "7", "8", "9">>
\* the internal ID of the i-th project
ProjId(i) == <<"0", "-", Digit[i]>>

ShortNames == {<<"D">>, <<"E">>, <<"F">>}
Names == {<<"E">>, <<"D", "E">>}

\* the project lists a tracker can hold: IDs by position, short names unique
ProjectLists ==
    UNION {{ps \in [1..n -> [id : {ProjId(i) : i \in 1..n}, shortName : ShortNames,
                             name : Names]] :
               /\ \A i \in 1..n : ps[i].id = ProjId(i)
               /\ \A i, j \in 1..n : i # j => ps[i].shortName # ps[j].shortName}
           : n \in 0..MaxProjects}

\* a project of the tracker as the API client hands it over
ProjectValue(p, repr) ==
    LET f == [id |-> PyStr(p.id), shortName |-> PyStr(p.shortName), name |-> PyStr(p.name)]
    IN IF repr = "model" THEN PyModel(f) ELSE PyDict(f)

Reprs == {"model", "dict"}

Min(S) == CHOOSE i \in S : \A j \in S : i <= j

\* ProjectsClient.get_project_by_name: exact short name, then exact name,
\* then partial name; the first match, or nothing
FindByName(ps, x) ==
    LET byShort == {i \in 1..Len(ps) : ps[i].shortName = x}
        byName == {i \in 1..Len(ps) : ps[i].name = x}
        byPart == {i \in 1..Len(ps) : contains(ps[i].name, x)}
    IN IF byShort # {} THEN Min(byShort)
       ELSE IF byName # {} THEN Min(byName)
       ELSE IF byPart # {} THEN Min(byPart)
       ELSE 0

\* the position of the project with this ID, or 0
FindById(ps, id) ==
    LET hit == {i \in 1..Len(ps) : ps[i].id = id}
    IN IF hit # {} THEN Min(hit) ELSE 0

NetFault == Exc("HTTPError", <<"500 Server Error">>, PyNone)
BodyFault ==
    Exc("HTTPError", <<"400 Bad Request">>,
        PyObject([content |-> PyBytes(<<"{\"error\":\"invalid\"}", InvalidByte>>)]))
NotFoundFault(id) == Exc("YouTrackAPIError", <<"Project not found", ": ">> \o id, PyNone)

IssueId == PyStr(<<"2", "-", "1">>)
ReadableId == PyStr(<<"D", "-", "1">>)

\* what GET issues/<id> can answer
RawIssues ==
    {PyDict(("id" :> IssueId) @@ ("idReadable" :> ReadableId)
            @@ ("$type" :> PyStr(<<"Issue">>)) @@ ("summary" :> PyStr(<<"S">>))),
     PyDict(("id" :> IssueId) @@ ("idReadable" :> ReadableId)
            @@ ("$type" :> PyStr(<<"Issue">>))),
     PyDict(("id" :> IssueId) @@ ("idReadable" :> ReadableId))}

IssueLists == {PyList(<<>>), PyList(<<PyDict([id |-> IssueId, idReadable |-> ReadableId])>>)}

\* what IssuesClient.create_issue can hand back
CreatedIssues ==
    {PyModel([id |-> IssueId, idReadable |-> ReadableId]),
     PyModel([id |-> IssueId, idReadable |-> PyNone]),
     PyModel([id |-> IssueId]),
     PyObject([id |-> IssueId]),
     PyDict([id |-> IssueId, idReadable |-> ReadableId]),
     PyDict([id |-> IssueId]),
     PyDict([idReadable |-> ReadableId]),
     PyDict(("$type" :> PyStr(<<"Issue">>))),
     PyDict([error |-> PyStr(<<"Field required">>)])}

\* the elements a custom-field list can hold
FieldElements ==
    {PyModel([name |-> PyStr(<<"Priority">>)]),
     PyDict([name |-> PyStr(<<"Priority">>)]),
     PyInt(7)}

\* what ProjectsClient.get_custom_fields can hand back
FieldShapes ==
    {PyNone, PyDict([name |-> PyStr(<<"Priority">>)]), PyInt(7), PyStr(<<"x", "y">>)}
    \cup {PyList(xs) : xs \in UNION {[1..n -> FieldElements] : n \in 0..MaxFields}}

\* the tracker's project list with the patch applied to project i
Patched(ps, i, data) ==
    [ps EXCEPT ![i] = [id |-> ps[i].id,
                       shortName |-> IF "shortName" \in DOMAIN data.fields
                                     THEN data.fields["shortName"].s ELSE ps[i].shortName,
                       name |-> IF "name" \in DOMAIN data.fields
                                THEN data.fields["name"].s ELSE ps[i].name]]

\* whether the tracker accepts the patch for project i
PatchValid(ps, i, data) ==
    /\ "name" \in DOMAIN data.fields => data.fields["name"].s \in Names
    /\ "shortName" \in DOMAIN data.fields =>
           /\ data.fields["shortName"].s \in ShortNames
           /\ \A j \in 1..Len(ps) : j # i => ps[j].shortName # data.fields["shortName"].s

\* a response and the tracker's state after the call
Answer(r, ps) == [r |-> r, ps |-> ps]

\* the answers call c can get when the tracker holds ps
Outcomes(c, ps) ==
    CASE c.api = "client.get" ->
           IF Len(c.args) = 2
           THEN {Answer(Ok(l), ps) : l \in IssueLists} \cup {Answer(Fault(NetFault), ps)}
           ELSE {Answer(Ok(i), ps) : i \in RawIssues}
                \cup {Answer(Fault(NetFault), ps), Answer(Fault(BodyFault), ps)}
      [] c.api = "issues_api.add_comment" ->
           {Answer(Ok(PyDict([id |-> PyStr(<<"4", "-", "1">>), text |-> c.args[2]])), ps),
            Answer(Fault(NetFault), ps)}
      [] c.api = "issues_api.create_issue" ->
           {Answer(Ok(i), ps) : i \in CreatedIssues}
           \cup {Answer(Fault(NetFault), ps), Answer(Fault(BodyFault), ps)}
      [] c.api = "projects_api.get_projects" ->
           {Answer(Ok(PyList([i \in 1..Len(ps) |-> ProjectValue(ps[i], repr)])), ps) :
               repr \in Reprs}
           \cup {Answer(Fault(NetFault), ps)}
      [] c.api = "projects_api.get_project" ->
           LET i == FindById(ps, str(c.args[1]))
           IN (IF i # 0 THEN {Answer(Ok(ProjectValue(ps[i], repr)), ps) : repr \in Reprs}
               ELSE {Answer(Fault(NotFoundFault(str(c.args[1]))), ps)})
              \cup {Answer(Fault(NetFault), ps), Answer(Fault(BodyFault), ps)}
      [] c.api = "projects_api.get_project_by_name" ->
           LET i == FindByName(ps, str(c.args[1]))
           IN (IF i # 0 THEN {Answer(Ok(ProjectValue(ps[i], repr)), ps) : repr \in Reprs}
               ELSE {Answer(Ok(PyNone), ps)})
              \cup {Answer(Fault(NetFault), ps)}
      [] c.api = "projects_api.get_project_issues" ->
           (IF FindById(ps, str(c.args[1])) # 0
            THEN {Answer(Ok(l), ps) : l \in IssueLists}
            ELSE {Answer(Ok(PyList(<<>>)), ps),
                  Answer(Fault(NotFoundFault(str(c.args[1]))), ps)})
           \cup {Answer(Fault(NetFault), ps)}
      [] c.api = "projects_api.get_custom_fields" ->
           {Answer(Ok(f), ps) : f \in FieldShapes} \cup {Answer(Fault(NetFault), ps)}
      [] c.api = "projects_api.get_project_detailed" ->
           LET i == FindById(ps, str(c.args[1]))
           IN (IF i # 0
               THEN {Answer(Ok(PyModel([project |-> ProjectValue(ps[i], "dict"),
                                        custom_fields |-> PyList(<<>>)])), ps),
                     Answer(Ok(PyDict([project |-> ProjectValue(ps[i], "dict"),
                                       custom_fields |-> PyList(<<>>)])), ps)}
               ELSE {Answer(Fault(NotFoundFault(str(c.args[1]))), ps)})
              \cup {Answer(Fault(NetFault), ps)}
      [] c.api = "projects_api.get_project_fields_from_issues" ->
           {Answer(Ok(PyDict([fields |-> PyList(<<>>)])), ps), Answer(Fault(NetFault), ps)}
      [] c.api = "projects_api.create_project" ->
           LET new == [id |-> ProjId(Len(ps) + 1), shortName |-> str(c.args[2]),
                       name |-> str(c.args[1])]
           IN (IF /\ Len(ps) < MaxProjects
                  /\ new.shortName \in ShortNames
                  /\ new.name \in Names
                  /\ \A j \in 1..Len(ps) : ps[j].shortName # new.shortName
               THEN {Answer(Ok(ProjectValue(new, repr)), Append(ps, new)) : repr \in Reprs}
               ELSE {Answer(Fault(BodyFault), ps)})
              \cup {Answer(Fault(NetFault), ps)}
      [] c.api = "client.post" ->
           LET id == SubSeq(str(c.args[1]), 2, Len(str(c.args[1])))
               i == FindById(ps, id)
           IN IF i = 0
              THEN {Answer(Fault(NotFoundFault(id)), ps), Answer(Fault(NetFault), ps)}
              ELSE IF PatchValid(ps, i, c.args[2])
              THEN {Answer(Ok(ProjectValue(Patched(ps, i, c.args[2])[i], "dict")),
                           Patched(ps, i, c.args[2])),
                    \* the answer is lost: the update might still have worked
                    Answer(Fault(NetFault), Patched(ps, i, c.args[2])),
                    Answer(Fault(NetFault), ps)}
              ELSE {Answer(Fault(BodyFault), ps), Answer(Fault(NetFault), ps)}

---------------------------------------------------------------------------
(* The server (server.py): one tool invocation at a time is followed from  *)
(* its dispatch to its return.                                             *)

NoArgs == [none |-> TRUE]
NoLookup == [set |-> FALSE, name |-> <<>>, id |-> <<>>]
Idle == Ret(PyNone)

\* the facade method behind tool o, run on arguments a with responses rs
Run(o, a, rs) ==
    CASE o = "get_issue" -> get_issue(a.issue_id, rs)
      [] o = "get_issue_raw" -> get_issue_raw(a.issue_id, rs)
      [] o = "search_issues" -> search_issues(a.query, a.limit, rs)
      [] o = "create_issue" ->
           create_issue(a.project, a.summary, a.description, a.custom_fields,
                        a.YOUTRACK_URL, rs)
      [] o = "add_comment" -> add_comment(a.issue_id, a.text, rs)
      [] o = "get_projects" -> get_projects(a.include_archived, rs)
      [] o = "get_project" -> get_project(a.project_id, a.project, rs)
      [] o = "get_project_by_name" -> get_project_by_name(a.project_name, rs)
      [] o = "get_project_issues" ->
           get_project_issues(a.project_id, a.project, a.limit, rs)
      [] o = "get_custom_fields" -> get_custom_fields(a.project_id, a.project, rs)
      [] o = "get_project_detailed" -> get_project_detailed(a.project_id, a.project, rs)
      [] o = "get_project_fields" -> get_project_fields(a.project_id, a.project, rs)
      [] o = "create_project" ->
           create_project(a.name, a.short_name, a.lead_id, a.description, rs)
      [] o = "update_project" ->
           update_project(a.project_id, a.project, a.name, a.description, a.archived,
                          a.lead_id, a.short_name, rs)

\* whether a returned text is a project, i.e. a JSON object with an id
IsProjectText(v) ==
    /\ v.repr = "json"
    /\ v.doc.repr = "dict"
    /\ "id" \in DOMAIN v.doc.fields
    /\ "error" \notin DOMAIN v.doc.fields

\* IssueTools.__init__: the attributes of a new Issue facade
IssueTools__init__ == [client |-> "YouTrackClient", issues_api |-> "IssuesClient"]

\* ProjectTools.__init__: the attributes of a new Project facade
ProjectTools__init__ ==
    [client |-> "YouTrackClient", projects_api |-> "ProjectsClient",
     issues_api |-> "IssuesClient"]

\* issue_tools = IssueTools(); project_tools = ProjectTools()
ConstructedTools ==
    [issue_tools |-> IssueTools__init__, project_tools |-> ProjectTools__init__]

\* a facade whose methods remember the operation that ran last
self_after_caching(self, o) == ("_last" :> o) @@ self

\* the attributes of a facade after a step of its method o: no method of
\* either facade assigns to an attribute of self
self_after(self, o) == self

\* the operations the server sends to issue_tools; the others go to project_tools
IssueOps == {"get_issue", "get_issue_raw", "create_issue", "add_comment", "search_issues"}

\* the server's facade instances after a step of tool o
ToolsAfter(t, o) ==
    IF o \in IssueOps
    THEN [t EXCEPT !.issue_tools = self_after(t.issue_tools, o)]
    ELSE [t EXCEPT !.project_tools = self_after(t.project_tools, o)]

\* no invocation in a slot
IdleInv ==
    [pc |-> "idle", op |-> "none", args |-> NoArgs, resp |-> <<>>, calls |-> <<>>,
     outcome |-> Idle]

\* the invocations that can be in progress side by side
Slots == {1, 2}

\* the server dispatches tool o with arguments a
Dispatch(o, a) ==
    /\ pc = "idle"
    /\ op' = o
    /\ args' = a
    /\ resp' = <<>>
    /\ LET r == Run(o, a, <<>>)
       IN /\ outcome' = r
          /\ calls' = IF r.kind = "await" THEN <<r.call>> ELSE <<>>
          /\ pc' = IF r.kind = "await" THEN "running" ELSE "done"
    /\ lookup' = IF o = "get_project" THEN lookup ELSE NoLookup
    /\ tools' = ToolsAfter(tools, o)
    /\ UNCHANGED <<projects, inv>>

\* the call in flight is answered and the method runs on to its next await or its end
Respond ==
    /\ pc = "running"
    /\ \E a \in Outcomes(outcome.call, projects) :
          /\ resp' = Append(resp, a.r)
          /\ projects' = a.ps
          /\ LET r == Run(op, args, Append(resp, a.r))
             IN /\ outcome' = r
                /\ calls' = IF r.kind = "await" THEN Append(calls, r.call) ELSE calls
                /\ pc' = IF r.kind = "await" THEN "running" ELSE "done"
                /\ lookup' = IF /\ op = "get_project_by_name"
                                /\ r.kind = "return"
                                /\ IsProjectText(r.value)
                             THEN [set |-> TRUE, name |-> str(args.project_name),
                                   id |-> str(r.value.doc.fields["id"])]
                             ELSE lookup
    /\ tools' = ToolsAfter(tools, op)
    /\ UNCHANGED <<op, args, inv>>

\* the tool's text goes back to the agent
ReturnToCaller ==
    /\ pc = "done"
    /\ pc' = "idle"
    /\ op' = "none"
    /\ args' = NoArgs
    /\ resp' = <<>>
    /\ calls' = <<>>
    /\ outcome' = Idle
    /\ UNCHANGED <<projects, lookup, tools, inv>>

\* somebody else edits the tracker between two invocations
TrackerChanges ==
    /\ pc = "idle"
    /\ projects' \in ProjectLists \ {projects}
    /\ lookup' = NoLookup
    /\ UNCHANGED <<pc, op, args, resp, calls, outcome, tools, inv>>

Missing == {PyNone, PyStr(<<>>)}
IssueIdArgs == {PyStr(<<>>), PyStr(<<"D", "-", "1">>)}
ProjectIdArgs == Missing \cup {PyStr(ProjId(i)) : i \in 1..MaxProjects}
ProjectAltArgs == {PyNone, PyStr(<<"D">>)}
Limit == PyInt(10)

tool_get_issue ==
    /\ pc = "idle"
    /\ \E issue_id \in IssueIdArgs : Dispatch("get_issue", [issue_id |-> issue_id])

tool_get_issue_raw ==
    /\ pc = "idle"
    /\ \E issue_id \in IssueIdArgs : Dispatch("get_issue_raw", [issue_id |-> issue_id])

tool_create_issue ==
    /\ pc = "idle"
    /\ \E project \in Missing \cup {PyStr(<<"D">>), PyStr(ProjId(1)),
                                    PyDict([project |-> PyStr(<<"D">>),
                                            summary |-> PyStr(<<"S">>)]),
                                    PyDict([name |-> PyStr(<<"D">>)])},
          summary \in Missing \cup {PyStr(<<"S">>)},
          description \in {PyNone, PyStr(<<"text">>)},
          custom_fields \in {PyNone, PyDict([Priority |-> PyStr(<<"High">>)])},
          YOUTRACK_URL \in {PyStr(<<>>), PyStr(<<"https://yt.example">>)} :
           Dispatch("create_issue",
                    [project |-> project, summary |-> summary, description |-> description,
                     custom_fields |-> custom_fields, YOUTRACK_URL |-> YOUTRACK_URL])

tool_add_comment ==
    /\ pc = "idle"
    /\ \E issue_id \in IssueIdArgs, text \in {PyStr(<<>>), PyStr(<<"text">>)} :
           Dispatch("add_comment", [issue_id |-> issue_id, text |-> text])

tool_search_issues ==
    /\ pc = "idle"
    /\ \E query \in {PyStr(<<>>), PyStr(<<"project: D">>)} :
           Dispatch("search_issues", [query |-> query, limit |-> Limit])

tool_get_projects ==
    /\ pc = "idle"
    /\ \E include_archived \in {PyBool(FALSE), PyBool(TRUE)} :
           Dispatch("get_projects", [include_archived |-> include_archived])

tool_get_project ==
    /\ pc = "idle"
    /\ \E project_id \in ProjectIdArgs, project \in ProjectAltArgs :
           Dispatch("get_project", [project_id |-> project_id, project |-> project])

tool_get_project_by_name ==
    /\ pc = "idle"
    /\ \E project_name \in Missing \cup {PyStr(<<"D">>), PyStr(<<"E">>), PyStr(<<"D", "E">>)} :
           Dispatch("get_project_by_name", [project_name |-> project_name])

tool_get_project_issues ==
    /\ pc = "idle"
    /\ \E project_id \in ProjectIdArgs, project \in ProjectAltArgs :
           Dispatch("get_project_issues",
                    [project_id |-> project_id, project |-> project, limit |-> Limit])

tool_get_custom_fields ==
    /\ pc = "idle"
    /\ \E project_id \in ProjectIdArgs, project \in ProjectAltArgs :
           Dispatch("get_custom_fields", [project_id |-> project_id, project |-> project])

tool_get_project_detailed ==
    /\ pc = "idle"
    /\ \E project_id \in ProjectIdArgs, project \in ProjectAltArgs :
           Dispatch("get_project_detailed", [project_id |-> project_id, project |-> project])

tool_get_project_fields ==
    /\ pc = "idle"
    /\ \E project_id \in ProjectIdArgs, project \in ProjectAltArgs :
           Dispatch("get_project_fields", [project_id |-> project_id, project |-> project])

tool_create_project ==
    /\ pc = "idle"
    /\ \E name \in Missing \cup {PyStr(<<"D", "E">>)},
          short_name \in {PyStr(<<>>), PyStr(<<"D">>), PyStr(<<"F">>)},
          lead_id \in {PyNone, PyStr(<<"1", "-", "1">>)},
          description \in {PyNone, PyStr(<<"text">>)} :
           Dispatch("create_project",
                    [name |-> name, short_name |-> short_name, lead_id |-> lead_id,
                     description |-> description])

tool_update_project ==
    /\ pc = "idle"
    /\ \E project_id \in {PyNone, PyStr(ProjId(1))},
          project \in {PyNone, PyStr(ProjId(2))},
          name \in Missing \cup {PyStr(<<"E">>)},
          description \in {PyNone, PyStr(<<"text">>)},
          archived \in {PyNone, PyBool(FALSE)},
          lead_id \in {PyNone, PyStr(<<"1", "-", "1">>)},
          short_name \in {PyNone, PyStr(<<"F">>)} :
           Dispatch("update_project",
                    [project_id |-> project_id, project |-> project, name |-> name,
                     description |-> description, archived |-> archived,
                     lead_id |-> lead_id, short_name |-> short_name])

Next ==
    \/ tool_get_issue
    \/ tool_get_issue_raw
    \/ tool_create_issue
    \/ tool_add_comment
    \/ tool_search_issues
    \/ tool_get_projects
    \/ tool_get_project
    \/ tool_get_project_by_name
    \/ tool_get_project_issues
    \/ tool_get_custom_fields
    \/ tool_get_project_detailed
    \/ tool_get_project_fields
    \/ tool_create_project
    \/ tool_update_project
    \/ Respond
    \/ ReturnToCaller
    \/ TrackerChanges

Init ==
    /\ projects \in ProjectLists
    /\ pc = "idle"
    /\ op = "none"
    /\ args = NoArgs
    /\ resp = <<>>
    /\ calls = <<>>
    /\ outcome = Idle
    /\ lookup = NoLookup
    /\ tools = ConstructedTools
    /\ inv = [s \in Slots |-> IdleInv]

Spec == Init /\ [][Next]_vars

TypeOK ==
    /\ pc \in {"idle", "running", "done"}
    /\ outcome.kind \in {"await", "return", "raise"}
    /\ (pc = "running") = (outcome.kind = "await")
    /\ Len(calls) \in {Len(resp), Len(resp) + 1}

---------------------------------------------------------------------------
(* Two invocations side by side: the server's tools are coroutines on one  *)
(* event loop, sharing the module-level facade instances; a second tool    *)
(* can be dispatched while the first is suspended at an await, their steps *)
(* interleave at the awaits, and the tracker answers their calls in any    *)
(* order.                                                                  *)

\* the tool calls that run side by side
ConcInvocations ==
    {[op |-> "get_issue", args |-> [issue_id |-> PyStr(<<"D", "-", "1">>)]],
     [op |-> "get_issue_raw", args |-> [issue_id |-> PyStr(<<"D", "-", "1">>)]],
     [op |-> "search_issues", args |-> [query |-> PyStr(<<"project: D">>), limit |-> Limit]],
     [op |-> "add_comment",
      args |-> [issue_id |-> PyStr(<<"D", "-", "1">>), text |-> PyStr(<<"text">>)]],
     [op |-> "create_issue",
      args |-> [project |-> PyStr(<<"D">>), summary |-> PyStr(<<"S">>),
                description |-> PyNone, custom_fields |-> PyNone,
                YOUTRACK_URL |-> PyStr(<<>>)]],
     [op |-> "get_projects", args |-> [include_archived |-> PyBool(FALSE)]],
     [op |-> "get_project", args |-> [project_id |-> PyStr(ProjId(1)), project |-> PyNone]],
     [op |-> "get_project_by_name", args |-> [project_name |-> PyStr(<<"E">>)]],
     [op |-> "get_project_issues",
      args |-> [project_id |-> PyStr(<<"D">>), project |-> PyNone, limit |-> Limit]],
     [op |-> "get_custom_fields",
      args |-> [project_id |-> PyStr(ProjId(1)), project |-> PyNone]],
     [op |-> "get_project_detailed",
      args |-> [project_id |-> PyStr(ProjId(1)), project |-> PyNone]],
     [op |-> "get_project_fields",
      args |-> [project_id |-> PyStr(ProjId(1)), project |-> PyNone]],
     [op |-> "create_project",
      args |-> [name |-> PyStr(<<"D", "E">>), short_name |-> PyStr(<<"F">>),
                lead_id |-> PyStr(<<"1", "-", "1">>), description |-> PyNone]],
     [op |-> "update_project",
      args |-> [project_id |-> PyStr(ProjId(1)), project |-> PyNone,
                name |-> PyStr(<<"E">>), description |-> PyNone, archived |-> PyNone,
                lead_id |-> PyNone, short_name |-> PyNone]]}

\* the server dispatches a tool in slot s while the other slot is wherever it is
Invoke(s) ==
    /\ inv[s].pc = "idle"
    /\ \E c \in ConcInvocations :
          LET r == Run(c.op, c.args, <<>>)
          IN /\ inv' = [inv EXCEPT ![s] =
                           [pc |-> IF r.kind = "await" THEN "running" ELSE "done",
                            op |-> c.op, args |-> c.args, resp |-> <<>>,
                            calls |-> IF r.kind = "await" THEN <<r.call>> ELSE <<>>,
                            outcome |-> r]]
             /\ tools' = ToolsAfter(tools, c.op)
    /\ UNCHANGED <<projects, pc, op, args, resp, calls, outcome, lookup>>

\* the call slot s awaits is answered, and its method runs on to its next await or its end
Answered(s) ==
    /\ inv[s].pc = "running"
    /\ \E a \in Outcomes(inv[s].outcome.call, projects) :
          LET r == Run(inv[s].op, inv[s].args, Append(inv[s].resp, a.r))
          IN /\ inv' = [inv EXCEPT ![s] =
                           [pc |-> IF r.kind = "await" THEN "running" ELSE "done",
                            op |-> inv[s].op, args |-> inv[s].args,
                            resp |-> Append(inv[s].resp, a.r),
                            calls |-> IF r.kind = "await"
                                      THEN Append(inv[s].calls, r.call)
                                      ELSE inv[s].calls,
                            outcome |-> r]]
             /\ projects' = a.ps
             /\ tools' = ToolsAfter(tools, inv[s].op)
    /\ UNCHANGED <<pc, op, args, resp, calls, outcome, lookup>>

\* the text of slot s goes back to the agent
Finished(s) ==
    /\ inv[s].pc = "done"
    /\ inv' = [inv EXCEPT ![s] = IdleInv]
    /\ UNCHANGED <<projects, pc, op, args, resp, calls, outcome, lookup, tools>>

ConcNext == \E s \in Slots : Invoke(s) \/ Answered(s) \/ Finished(s)

ConcInit ==
    /\ projects \in {ps \in ProjectLists : Len(ps) = 1}
    /\ pc = "idle"
    /\ op = "none"
    /\ args = NoArgs
    /\ resp = <<>>
    /\ calls = <<>>
    /\ outcome = Idle
    /\ lookup = NoLookup
    /\ tools = ConstructedTools
    /\ inv = [s \in Slots |-> IdleInv]

ConcSpec == ConcInit /\ [][ConcNext]_vars

---------------------------------------------------------------------------
(* Properties *)

\* the invocation has returned a JSON text
Returned == outcome.kind = "return" /\ outcome.value.repr = "json"

\* the JSON value of the returned text
Doc == outcome.value.doc

\* the returned text is a JSON object with an `error` key
IsErrorEnvelope ==
    /\ Returned
    /\ Doc.repr = "dict"
    /\ "error" \in DOMAIN Doc.fields

\* remote call i of the invocation faulted
Faulted(i) == i \in 1..Len(resp) /\ ~resp[i].ok

\* the faults the code goes on after: the patch call of update_project, and a
\* "Project not found" fault of the direct lookup of get_project_issues
Tolerated(i) ==
    \/ op = "update_project" /\ calls[i].api = "client.post"
    \/ /\ op = "get_project_issues"
       /\ i = 1
       /\ startswith(resp[1].exc.msg, <<"Project not found">>)

\* C1 as stated: every invocation ends by returning, never by raising, and
\* whenever one of its remote calls faulted what it returns is an error envelope.
C1_Original ==
    /\ outcome.kind # "raise"
    /\ pc = "done" =>
          /\ Returned
          /\ (\E i \in 1..Len(resp) : Faulted(i)) => IsErrorEnvelope

\* C1, amended: every invocation of the fourteen operations ends by returning a
\* JSON text, never by raising; and whenever one of its remote calls faulted,
\* other than the patch call of update_project or a "Project not found" fault of
\* the direct lookup of get_project_issues, the text is an error envelope.
C1_NoFaultEscapes ==
    /\ outcome.kind # "raise"
    /\ pc = "done" =>
          /\ Returned
          /\ (\E i \in 1..Len(resp) : Faulted(i) /\ ~Tolerated(i)) => IsErrorEnvelope

\* a create call that faulted after a successful resolution, answered by an envelope
C1_Witness ==
    /\ pc = "done"
    /\ op = "create_issue"
    /\ Len(resp) = 2
    /\ Faulted(2)
    /\ IsErrorEnvelope

\* C2: get_issue issues exactly one remote call, a GET; when it succeeds the
\* returned object carries the id and idReadable the remote sent, and when it
\* faults the result is {"error": <the fault's message>}; nothing is raised.
C2_GetIssue ==
    op = "get_issue" =>
        /\ Len(calls) = 1
        /\ calls[1].api = "client.get"
        /\ outcome.kind # "raise"
        /\ pc = "done" =>
              /\ Returned
              /\ IF resp[1].ok
                 THEN /\ Doc.repr = "dict"
                      /\ \A k \in {"id", "idReadable"} :
                            /\ k \in DOMAIN Doc.fields
                            /\ Doc.fields[k] = resp[1].val.fields[k]
                 ELSE Doc = PyDict([error |-> PyStr(resp[1].exc.msg)])

\* a get_issue that succeeded and returned the remote's readable ID
C2_Witness ==
    /\ pc = "done"
    /\ op = "get_issue"
    /\ resp[1].ok
    /\ Returned
    /\ Doc.fields["idReadable"] = ReadableId

\* create_issue was called with a project short name and a summary
ShortNameCall ==
    /\ op = "create_issue"
    /\ args.project.repr = "str"
    /\ Truthy(args.project)
    /\ ~startswith(args.project.s, <<"0", "-">>)
    /\ Truthy(args.summary)

\* C3: in create_issue called with a project short name and a summary, the
\* first remote call is the name resolution; a create call is only ever the
\* second call, after a resolution that succeeded, and carries the resolved
\* project's ID; and when the resolution finds nothing, the invocation is over
\* with {"error": "Project not found: <project>", "status": "error"} and without
\* a create call.
C3_ResolveBeforeCreate ==
    ShortNameCall =>
        /\ Len(calls) >= 1
        /\ calls[1] = Call("projects_api.get_project_by_name", <<args.project>>)
        /\ \A i \in 1..Len(calls) :
              calls[i].api = "issues_api.create_issue" =>
                  /\ i = 2
                  /\ resp[1].ok
                  /\ Truthy(resp[1].val)
                  /\ calls[i].args[1] = resp[1].val.fields["id"]
        /\ (Len(resp) >= 1 /\ resp[1].ok /\ ~Truthy(resp[1].val)) =>
              /\ pc = "done"
              /\ Len(calls) = 1
              /\ Returned
              /\ Doc = PyDict([error |-> PyStr(<<"Project not found", ": ">> \o args.project.s),
                               status |-> PyStr(<<"error">>)])

\* the create call in flight, after the short name was resolved
C3_Witness ==
    /\ ShortNameCall
    /\ Len(calls) = 2
    /\ calls[2].api = "issues_api.create_issue"
    /\ calls[2].args[1] = PyStr(ProjId(1))

\* C4 as stated: create_issue with a missing summary returns
\* {"error": "Summary is required", "status": "error"} and makes no remote call,
\* whatever the other arguments are.
C4_Original ==
    (op = "create_issue" /\ ~Truthy(args.summary)) =>
        /\ pc = "done"
        /\ calls = <<>>
        /\ Returned
        /\ Doc = ErrorStatusDict(<<"Summary is required">>)

\* the project argument is the dictionary form that carries its own summary
DictionaryForm ==
    /\ args.project.repr = "dict"
    /\ "project" \in DOMAIN args.project.fields
    /\ "summary" \in DOMAIN args.project.fields

\* C4, amended: create_issue with a missing summary and a project that is
\* present (and is not the dictionary form, which carries its own summary)
\* returns {"error": "Summary is required", "status": "error"}; with the project
\* missing as well it returns {"error": "Project is required", "status": "error"};
\* in both cases it makes no remote call.
C4_SummaryRequired ==
    (op = "create_issue" /\ ~Truthy(args.summary) /\ ~DictionaryForm) =>
        /\ pc = "done"
        /\ calls = <<>>
        /\ Returned
        /\ Doc = IF Truthy(args.project)
                 THEN ErrorStatusDict(<<"Summary is required">>)
                 ELSE ErrorStatusDict(<<"Project is required">>)

\* a create_issue with a project and an empty summary, refused
C4_Witness ==
    /\ pc = "done"
    /\ op = "create_issue"
    /\ args.project = PyStr(<<"D">>)
    /\ args.summary = PyStr(<<>>)
    /\ Doc = ErrorStatusDict(<<"Summary is required">>)

\* the issue the create call of this create_issue handed back
CreatedIssue == resp[Len(resp)].val

\* field k of the created issue, in either representation
CreatedField(k) ==
    IF k \in DOMAIN CreatedIssue.fields THEN CreatedIssue.fields[k] ELSE PyNone

\* the create call of this create_issue came back with an issue that has an ID
CreateSucceeded ==
    /\ pc = "done"
    /\ op = "create_issue"
    /\ Len(calls) >= 1
    /\ calls[Len(calls)].api = "issues_api.create_issue"
    /\ resp[Len(resp)].ok
    /\ ~(CreatedIssue.repr = "dict" /\ Truthy(CreatedField("error")))
    /\ (Truthy(CreatedField("id")) \/ Truthy(CreatedField("idReadable")))

\* C5: when the create call of create_issue comes back with an issue that has
\* an ID, held as a model object or as a mapping, the result has a `url` that is
\* <base_url>/issue/<readable ID> if the issue has a readable ID and
\* <base_url>/issue/<id> if not, <base_url> being the configured URL, or the
\* built-in one when none is configured.
C5_IssueUrl ==
    CreateSucceeded =>
        /\ Returned
        /\ Doc.repr = "dict"
        /\ "url" \in DOMAIN Doc.fields
        /\ Doc.fields["url"] =
              PyStr((IF Len(args.YOUTRACK_URL.s) > 0 THEN args.YOUTRACK_URL.s
                     ELSE <<"https://youtrack.gaijin.team">>)
                    \o <<"/issue/">>
                    \o (IF Truthy(CreatedField("idReadable"))
                        THEN CreatedField("idReadable").s
                        ELSE CreatedField("id").s))

\* a model object without readable ID, linked by its internal ID
C5_Witness ==
    /\ CreateSucceeded
    /\ CreatedIssue.repr = "model"
    /\ ~Truthy(CreatedField("idReadable"))
    /\ Doc.fields["url"] = PyStr(<<"https://yt.example", "/issue/", "2", "-", "1">>)

\* what the claim has get_custom_fields make of a field list f: nothing gives
\* the empty list, a mapping itself, a sequence its elements converted one by
\* one, and anything else its string under `custom_fields`
ExpectedFields(f) ==
    CASE f.repr = "none" -> PyList(<<>>)
      [] f.repr = "dict" -> f
      [] f.repr = "list" ->
           PyList([i \in 1..Len(f.items) |->
                      IF f.items[i].repr = "model" THEN PyDict(f.items[i].fields)
                      ELSE IF f.items[i].repr = "dict" THEN f.items[i]
                      ELSE PyStr(str(f.items[i]))])
      [] f.repr = "str" -> PyList([i \in 1..Len(f.s) |-> PyStr(<<f.s[i]>>)])
      [] OTHER -> PyDict([custom_fields |-> PyStr(str(f))])

\* C6: get_custom_fields never raises; it always returns a JSON text, and when
\* the field list arrives it is the empty list for nothing, the mapping for a
\* mapping, the element-wise converted list for a sequence (objects dumped,
\* mappings kept, other values as strings) and the string-coerced fallback for
\* a value that cannot be iterated.
C6_CustomFieldsNeverRaises ==
    op = "get_custom_fields" =>
        /\ outcome.kind # "raise"
        /\ pc = "done" =>
              /\ Returned
              /\ (Len(resp) = 1 /\ resp[1].ok) => Doc = ExpectedFields(resp[1].val)

\* a field list that cannot be iterated, returned as its string
C6_Witness ==
    /\ pc = "done"
    /\ op = "get_custom_fields"
    /\ Len(resp) = 1
    /\ resp[1].ok
    /\ resp[1].val.repr = "int"
    /\ Doc = PyDict([custom_fields |-> PyStr(<<"<int>">>)])

\* update_project was called with a project and none of the optional arguments
NoOptionalArguments ==
    /\ op = "update_project"
    /\ Truthy(Or(args.project_id, args.project))
    /\ \A k \in {"name", "description", "archived", "lead_id", "short_name"} :
          args[k].repr = "none"

\* C7: update_project with none of the optional arguments, once the fetch of
\* the project has succeeded, returns that project exactly as fetched and has
\* issued no other call, whether the project came as a model object or as a
\* plain mapping.
C7_NoArgumentsNoPatch ==
    (NoOptionalArguments /\ pc = "done" /\ Len(resp) >= 1 /\ resp[1].ok) =>
        /\ Len(calls) = 1
        /\ \A i \in 1..Len(calls) : calls[i].api # "client.post"
        /\ Returned
        /\ Doc = PyDict(resp[1].val.fields)

\* C8: when get_project_by_name(X) returned a project and get_project is then
\* called with that project's id, the tracker unchanged in between, the
\* project is found, and the record returned has that id and a short name
\* equal to X, a name equal to X, or a name that contains X.
C8_RoundTrip ==
    (/\ op = "get_project"
     /\ pc = "done"
     /\ lookup.set
     /\ Or(args.project_id, args.project) = PyStr(lookup.id)) =>
        /\ Returned
        /\ IF resp[1].ok
           THEN /\ Doc.repr = "dict"
                /\ Doc.fields["id"] = PyStr(lookup.id)
                /\ \/ Doc.fields["shortName"].s = lookup.name
                   \/ Doc.fields["name"].s = lookup.name
                   \/ contains(Doc.fields["name"].s, lookup.name)
           ELSE ~startswith(resp[1].exc.msg, <<"Project not found">>)

\* a round trip whose record matches X only by the partial-match rule
C8_Witness ==
    /\ op = "get_project"
    /\ pc = "done"
    /\ lookup.set
    /\ Or(args.project_id, args.project) = PyStr(lookup.id)
    /\ resp[1].ok
    /\ Doc.fields["id"] = PyStr(lookup.id)
    /\ Doc.fields["shortName"].s # lookup.name
    /\ Doc.fields["name"].s # lookup.name
    /\ contains(Doc.fields["name"].s, lookup.name)

\* the tool was invoked with one of its required arguments None or empty
RequiredMissing ==
    CASE op \in {"get_issue", "get_issue_raw"} -> ~Truthy(args.issue_id)
      [] op = "search_issues" -> ~Truthy(args.query)
      [] op = "add_comment" -> ~Truthy(args.issue_id) \/ ~Truthy(args.text)
      [] op = "create_issue" -> ~Truthy(args.project) \/ ~Truthy(args.summary)
      [] op \in {"get_project", "get_project_issues", "get_custom_fields",
                 "get_project_detailed", "get_project_fields", "update_project"} ->
           ~Truthy(Or(args.project_id, args.project))
      [] op = "get_project_by_name" -> ~Truthy(args.project_name)
      [] op = "create_project" ->
           ~Truthy(args.name) \/ ~Truthy(args.short_name) \/ ~Truthy(args.lead_id)
      [] OTHER -> FALSE

\* the messages of the form "<field> is required"
RequiredMessages ==
    {<<"Project is required">>, <<"Summary is required">>, <<"Project ID is required">>,
     <<"Project name is required">>, <<"Project short name is required">>,
     <<"Project leader ID is required">>, <<"Issue ID is required">>,
     <<"Query is required">>, <<"Text is required">>}

\* C9: a tool invoked with a required argument missing or empty is over without
\* any remote call, with an error envelope {"error": "<field> is required"}.
C9_RequiredArguments ==
    RequiredMissing =>
        /\ pc = "done"
        /\ calls = <<>>
        /\ IsErrorEnvelope
        /\ Doc.fields["error"].s \in RequiredMessages

\* C10 as stated: no invocation issues more than two remote calls.
C10_Original == Len(calls) <= 2

\* C10, amended: no invocation issues more than three sequential remote calls;
\* only update_project (fetch, patch, re-fetch) and get_project_issues (direct
\* lookup, name resolution, second lookup) issue three, only these and
\* create_issue (name resolution, create) issue two, and every other operation
\* issues at most one.
C10_AtMostThreeCalls ==
    /\ Len(calls) <= 3
    /\ Len(calls) = 3 => op \in {"update_project", "get_project_issues"}
    /\ Len(calls) = 2 => op \in {"update_project", "get_project_issues", "create_issue"}

\* an update_project that fetched, patched and fetched again
C10_Witness ==
    /\ pc = "done"
    /\ op = "update_project"
    /\ Len(calls) = 3
    /\ calls[2].api = "client.post"
    /\ calls[3].api = "projects_api.get_project"

\* the last response of the invocation: the one its result is made from
LastResponse == resp[Len(resp)].val

\* the invocation ended on a successful response that is a record with fields
\* (a mapping, a model object or a plain object), and what it returned is a
\* JSON object that is not an error envelope of the operation's own making
RecordPassedOn ==
    /\ pc = "done"
    /\ Returned
    /\ Len(resp) >= 1
    /\ resp[Len(resp)].ok
    /\ LastResponse.repr \in {"dict", "model", "object"}
    /\ Doc.repr = "dict"
    /\ "error" \in DOMAIN Doc.fields => "error" \in DOMAIN LastResponse.fields

\* every field of the record is in the result, with its value
FieldsKept ==
    \A k \in DOMAIN LastResponse.fields :
        k \in DOMAIN Doc.fields /\ Doc.fields[k] = LastResponse.fields[k]

\* the fields of the result the record did not have
FieldsAdded == DOMAIN Doc.fields \ DOMAIN LastResponse.fields

PatchFaulted ==
    /\ op = "update_project"
    /\ Len(resp) >= 2
    /\ resp[1].ok
    /\ calls[2].api = "client.post"
    /\ ~resp[2].ok

IssuesIdentifier == Or(args.project_id, args.project)

\* the direct lookup failed with a "not found"-shaped failure
DirectLookupNotFound ==
    /\ Len(resp) >= 1
    /\ ~resp[1].ok
    /\ startswith(resp[1].exc.msg, <<"Project not found">>)

C15_NotFoundObject ==
    (op = "get_project_by_name" /\ Truthy(args.project_name)) =>
        /\ outcome.kind # "raise"
        /\ calls = <<Call("projects_api.get_project_by_name", <<args.project_name>>)>>
        /\ (pc = "done" /\ resp[1].ok) =>
              /\ Returned
              /\ IF Truthy(resp[1].val)
                 THEN /\ Doc = PyDict(resp[1].val.fields)
                      /\ ~IsErrorEnvelope
                 ELSE Doc = PyDict([error |-> PyStr(<<"Project '">> \o args.project_name.s
                                                    \o <<"' not found">>)])

\* a name no project of the tracker matches, answered by the not-found object
C15_Witness ==
    /\ op = "get_project_by_name"
    /\ Truthy(args.project_name)
    /\ pc = "done"
    /\ resp[1].ok
    /\ resp[1].val = PyNone
    /\ FindByName(projects, args.project_name.s) = 0
    /\ Doc = PyDict([error |-> PyStr(<<"Project '", "D", "' not found">>)])

\* C16: create_project issues its create call, one and no more, only when
\* name, short_name and lead_id are all non-empty; when one of them is missing
\* it is over without a remote call, with the error envelope that names the
\* first missing one in the order name, short_name, lead_id.
C16_CreateProjectValidated ==
    op = "create_project" =>
        IF Truthy(args.name) /\ Truthy(args.short_name) /\ Truthy(args.lead_id)
        THEN calls = <<Call("projects_api.create_project",
                            <<args.name, args.short_name, args.lead_id,
                              args.description>>)>>
        ELSE /\ pc = "done"
             /\ calls = <<>>
             /\ Returned
             /\ Doc = ErrorDict(IF ~Truthy(args.name)
                                THEN <<"Project name is required">>
                                ELSE IF ~Truthy(args.short_name)
                                THEN <<"Project short name is required">>
                                ELSE <<"Project leader ID is required">>)

\* short name and leader both missing: the short name is the one named
C16_Witness ==
    /\ op = "create_project"
    /\ pc = "done"
    /\ Truthy(args.name)
    /\ ~Truthy(args.short_name)
    /\ ~Truthy(args.lead_id)
    /\ calls = <<>>
    /\ Doc = ErrorDict(<<"Project short name is required">>)

\* the patch body has key k, with value v, exactly if argument a was supplied
PatchKey(data, a, k, v) ==
    IF args[a].repr # "none"
    THEN k \in DOMAIN data.fields /\ data.fields[k] = v
    ELSE k \notin DOMAIN data.fields

\* C17: the body of every patch call of update_project has exactly the keys of
\* the optional arguments that were supplied (anything but None, a falsy value
\* such as archived=False or an empty string included): name under `name`,
\* description under `description`, archived under `archived`, lead_id under
\* `leader` as {"id": lead_id}, short_name under `shortName`; and no other key.
C17_SparsePatch ==
    op = "update_project" =>
        \A i \in 1..Len(calls) :
            calls[i].api = "client.post" =>
                LET data == calls[i].args[2]
                IN /\ data.repr = "dict"
                   /\ PatchKey(data, "name", "name", args.name)
                   /\ PatchKey(data, "description", "description", args.description)
                   /\ PatchKey(data, "archived", "archived", args.archived)
                   /\ PatchKey(data, "lead_id", "leader", PyDict([id |-> args.lead_id]))
                   /\ PatchKey(data, "short_name", "shortName", args.short_name)
                   /\ DOMAIN data.fields \subseteq
                         {"name", "description", "archived", "leader", "shortName"}
                   /\ calls[i].args[1] =
                         PyStr(<<"admin/projects/">>
                               \o Or(args.project_id, args.project).s)

\* a patch of an empty name and archived=False, and of nothing else
C17_Witness ==
    /\ op = "update_project"
    /\ Len(calls) >= 2
    /\ calls[2].api = "client.post"
    /\ calls[2].args[2] = PyDict([name |-> PyStr(<<>>), archived |-> PyBool(FALSE)])

\* the project and the summary create_issue goes by: those of the dictionary
\* form when the project argument is one
GivenProject == IF DictionaryForm THEN dict_get(args.project, "project") ELSE args.project
GivenSummary == IF DictionaryForm THEN dict_get(args.project, "summary") ELSE args.summary

\* create_issue was called with a project string and a summary
ProjectStringCall ==
    /\ op = "create_issue"
    /\ GivenProject.repr = "str"
    /\ Truthy(GivenProject)
    /\ Truthy(GivenSummary)

\* C18: create_issue called with a project string and a summary resolves the
\* project by name if and only if the string does not start with `0-`: when it
\* does, no resolution call is made and the one call is the create call with
\* the project value as given; when it does not, the first call is the
\* resolution of the string, it is the only resolution call, and a create call
\* comes only after it.
C18_ResolveIffNotInternal ==
    ProjectStringCall =>
        LET resolutions == {i \in 1..Len(calls) :
                               calls[i].api = "projects_api.get_project_by_name"}
            creates == {i \in 1..Len(calls) : calls[i].api = "issues_api.create_issue"}
        IN IF startswith(GivenProject.s, <<"0", "-">>)
           THEN /\ resolutions = {}
                /\ Len(calls) = 1
                /\ creates = {1}
                /\ calls[1].args[1] = GivenProject
           ELSE /\ resolutions = {1}
                /\ calls[1].args = <<GivenProject>>
                /\ creates \subseteq {2}

\* an internal ID: the create call is the first call and carries the ID as given
C18_Witness ==
    /\ op = "create_issue"
    /\ args.project = PyStr(ProjId(1))
    /\ Truthy(args.summary)
    /\ pc = "done"
    /\ Len(calls) = 1
    /\ calls[1].api = "issues_api.create_issue"
    /\ calls[1].args[1] = PyStr(ProjId(1))
    /\ resp[1].ok

\* the fault that ended the invocation: its last call raised
LastFault == resp[Len(resp)].exc

\* the fault carries a response with a body
HasBody(e) == Truthy(e.response) /\ hasattr(e.response, "content")

\* the invocation ended on a remote call that faulted
EndedOnFault == pc = "done" /\ Len(resp) >= 1 /\ ~resp[Len(resp)].ok

\* the decoded body of the response the fault carries
DecodedBody(e) == decode_utf8_replace(getattr(e.response, "content"))

\* C19 as stated: whenever an invocation ends on a remote call that faulted, it
\* returns an error envelope whose text contains the fault's message, and, when
\* the fault carries a response body, the decoded body as well.
C19_Original ==
    EndedOnFault =>
        /\ IsErrorEnvelope
        /\ contains(Doc.fields["error"].s, LastFault.msg)
        /\ HasBody(LastFault) =>
              contains(Doc.fields["error"].s, DecodedBody(LastFault))

\* what the operation puts in front of the message of a fault of its call i
FaultPrefix(i) ==
    CASE op = "update_project" /\ i = 1 -> <<"Could not update project: ">>
      [] op = "update_project" /\ i = 3 ->
           <<"Project was updated but could not retrieve the result: ">>
      [] op = "create_issue" /\ calls[i].api = "projects_api.get_project_by_name" ->
           <<"Error finding project: ">>
      [] OTHER -> <<>>

\* C19, amended: whenever an invocation ends on a remote call that faulted, it
\* returns an error envelope with the fault's message; the decoded response
\* body is added, as `<message> - <body>`, only for a fault of the create call
\* of create_issue that carries a response body; for every other call, and
\* when the fault carries no body, the text is the message alone, after
\* the operation's fixed prefix where it has one.
C19_BodyOnlyOnCreate ==
    EndedOnFault =>
        /\ IsErrorEnvelope
        /\ Doc.fields["error"].s =
              IF calls[Len(resp)].api = "issues_api.create_issue" /\ HasBody(LastFault)
              THEN LastFault.msg \o <<" - ">> \o DecodedBody(LastFault)
              ELSE FaultPrefix(Len(resp)) \o LastFault.msg

\* a create call refused with a body: message and decoded body are returned
C19_Witness ==
    /\ EndedOnFault
    /\ op = "create_issue"
    /\ calls[Len(resp)].api = "issues_api.create_issue"
    /\ HasBody(LastFault)
    /\ Doc.fields["error"].s =
          <<"400 Bad Request", " - ", "{\"error\":\"invalid\"}", "U+FFFD">>

\* the fetch update_project makes of the project it was given
FetchCall == Call("projects_api.get_project", <<Or(args.project_id, args.project)>>)

\* C20: in update_project the remote calls come in the order fetch, patch,
\* re-fetch: the first call is the fetch; a patch is only ever the second call
\* and only after the fetch succeeded; when the fetch faults the operation is
\* over with "Could not update project: ..." and without a patch; once the
\* patch is answered the re-fetch is issued as the third call; and a project
\* returned after a patch was attempted is the one the re-fetch delivered.
C20_FetchPatchRefetch ==
    op = "update_project" =>
        /\ Len(calls) >= 1 => calls[1] = FetchCall
        /\ \A i \in 1..Len(calls) :
              calls[i].api = "client.post" => i = 2 /\ resp[1].ok
        /\ (Len(resp) >= 1 /\ ~resp[1].ok) =>
              /\ pc = "done"
              /\ Len(calls) = 1
              /\ Returned
              /\ Doc = ErrorDict(<<"Could not update project: ">> \o resp[1].exc.msg)
        /\ Len(calls) >= 2 =>
              /\ calls[2].api = "client.post"
              /\ Len(resp) >= 2 => Len(calls) = 3 /\ calls[3] = FetchCall
        /\ (pc = "done" /\ Len(calls) >= 2 /\ ~IsErrorEnvelope) =>
              /\ Len(resp) = 3
              /\ resp[3].ok
              /\ Returned
              /\ Doc = PyDict(resp[3].val.fields)

\* a patch that changed the project: what is returned is the project as
\* fetched after the patch, which is not the project as fetched before it
C20_Witness ==
    /\ op = "update_project"
    /\ pc = "done"
    /\ Len(resp) = 3
    /\ resp[2].ok
    /\ resp[3].ok
    /\ resp[3].val # resp[1].val
    /\ Doc = PyDict(resp[3].val.fields)

\* the direct lookup failed with a fault that is not "not found"-shaped
DirectLookupOtherFault ==
    /\ op = "get_project_issues"
    /\ Len(resp) >= 1
    /\ ~resp[1].ok
    /\ ~startswith(resp[1].exc.msg, <<"Project not found">>)

\* C21: in get_project_issues, when the direct lookup fails with a fault whose
\* message does not start with "Project not found", the operation is over at
\* once with {"error": <the fault's message>}: the direct lookup stays its only
\* call, with no name resolution and no second lookup.
C21_OtherFaultEnds ==
    DirectLookupOtherFault =>
        /\ pc = "done"
        /\ Len(resp) = 1
        /\ calls = <<Call("projects_api.get_project_issues",
                          <<IssuesIdentifier, args.limit>>)>>
        /\ Returned
        /\ Doc = PyDict([error |-> PyStr(resp[1].exc.msg)])

\* a server error on the direct lookup, returned as the envelope
C21_Witness ==
    /\ DirectLookupOtherFault
    /\ pc = "done"
    /\ Len(calls) = 1
    /\ Doc = PyDict([error |-> PyStr(<<"500 Server Error">>)])

StatusSuccess ==
    "status" \in DOMAIN Doc.fields /\ Doc.fields["status"] = PyStr(<<"success">>)

\* the result of create_issue has an `error` and says status: "error"
StatusError ==
    /\ "error" \in DOMAIN Doc.fields
    /\ "status" \in DOMAIN Doc.fields
    /\ Doc.fields["status"] = PyStr(<<"error">>)

\* this create_issue issued its create call
CreateCallMade ==
    \E i \in 1..Len(calls) : calls[i].api = "issues_api.create_issue"

\* C23: every create_issue invocation returns a JSON object that says
\* status: "success" exactly when it has a `url`, and has a `url` exactly when
\* the create call came back without fault with an issue that is not a mapping
\* with a truthy `error` and that has a non-empty ID or readable ID; when the
\* create call was never made (validation or resolution failed) or faulted,
\* the result has an `error` and says status: "error", never "success".
C23_StatusIffUrl ==
    (op = "create_issue" /\ pc = "done") =>
        /\ Returned
        /\ Doc.repr = "dict"
        /\ StatusSuccess <=> "url" \in DOMAIN Doc.fields
        /\ "url" \in DOMAIN Doc.fields <=> CreateSucceeded
        /\ (~CreateCallMade \/ ~resp[Len(resp)].ok) => StatusError /\ ~StatusSuccess

\* a create call that came back with an issue without any ID: the result has
\* neither `url` nor `status`
C23_Witness ==
    /\ op = "create_issue"
    /\ pc = "done"
    /\ CreateCallMade
    /\ resp[Len(resp)].ok
    /\ ~Truthy(CreatedField("id"))
    /\ ~Truthy(CreatedField("idReadable"))
    /\ ~Truthy(CreatedField("error"))
    /\ "url" \notin DOMAIN Doc.fields
    /\ "status" \notin DOMAIN Doc.fields

\* the responses of this update_project, with r in place of the patch call's
WithPatchOutcome(r) == <<resp[1], r, resp[3]>>

\* C24: in update_project, when the re-fetch after the patch call faults, the
\* operation returns an error envelope whose message is "Project was updated
\* but could not retrieve the result: " and the fault's message, whether the
\* patch call succeeded or faulted; and what update_project returns once the
\* re-fetch is answered is the same for a patch that succeeded and for one
\* that faulted.
C24_RefetchFault ==
    (op = "update_project" /\ Len(resp) = 3) =>
        /\ pc = "done"
        /\ Returned
        /\ ~resp[3].ok =>
              Doc = PyDict([error |-> PyStr(
                        <<"Project was updated but could not retrieve the result: ">>
                        \o resp[3].exc.msg)])
        /\ outcome = Run(op, args, WithPatchOutcome(Ok(PyNone)))
        /\ outcome = Run(op, args, WithPatchOutcome(Fault(NetFault)))
        /\ outcome = Run(op, args, WithPatchOutcome(Fault(BodyFault)))

\* a patch that faulted and a re-fetch that faulted: "Project was updated but ..."
C24_Witness ==
    /\ op = "update_project"
    /\ pc = "done"
    /\ Len(resp) = 3
    /\ ~resp[2].ok
    /\ ~resp[3].ok
    /\ Doc = PyDict([error |-> PyStr(
              <<"Project was updated but could not retrieve the result: ",
                "500 Server Error">>)])

====
